---- MODULE Spec2Model ----
(***************************************************************************)
(* lambda/lambda.py: an AWS Lambda handler that forwards event["data"] to  *)
(* a SageMaker endpoint and returns outputs.activation_5.floatVal of the   *)
(* reply.  The module is the state of one Python process: the environment, *)
(* the module globals, the handler's locals and position, what it printed  *)
(* and what it sent, and the outcome of the most recent invocation.        *)
(***************************************************************************)
EXTENDS Integers, Sequences, FiniteSets, TLC

\* Longest list of numbers an event carries under "data".
MaxLen == 2

\* Significand width of numpy.float32 (IEEE 754 binary32).
Float32Precision == 24

(***************************************************************************)
(* Python values as the json module sees them.  A dict keeps its insertion *)
(* order, so an object is a sequence of <<key, value>> pairs.  PyFloat(n) is *)
(* the Python float whose value is the integer n.                          *)
(***************************************************************************)
Obj(items) == [kind |-> "object", value |-> items]
Arr(items) == [kind |-> "array", value |-> items]
PyInt(n) == [kind |-> "int", value |-> n]
PyFloat(n) == [kind |-> "float", value |-> n]
None == [kind |-> "null", value |-> <<>>]

NumVal(x) == x.value

\* The result of evaluating an expression: a value, or an exception raised.
Ok(v) == [exc |-> "", value |-> v]
Raise(e) == [exc |-> e, value |-> None]

HasKey(obj, key) ==
    /\ obj.kind = "object"
    /\ \E i \in 1..Len(obj.value) : obj.value[i][1] = key

\* obj[key] with a string key: KeyError on a dict without the key,
\* TypeError on a value that is not a dict.
Subscript(obj, key) ==
    IF obj.kind # "object" THEN Raise("TypeError")
    ELSE IF ~HasKey(obj, key) THEN Raise("KeyError")
    ELSE LET i == CHOOSE j \in 1..Len(obj.value) : obj.value[j][1] = key
         IN  Ok(obj.value[i][2])

RECURSIVE JoinStr(_, _)
JoinStr(parts, sep) ==
    IF parts = <<>> THEN ""
    ELSE IF Len(parts) = 1 THEN parts[1]
    ELSE parts[1] \o sep \o JoinStr(Tail(parts), sep)

Quote(s) == "\"" \o s \o "\""

\* repr of a Python float of integral value below 1e16.
FloatRepr(n) == ToString(n) \o ".0"

\* json.dumps(v) with the default separators (", " and ": ").
RECURSIVE JsonDumps(_)
JsonDumps(v) ==
    CASE v.kind = "int" -> ToString(v.value)
      [] v.kind = "float" -> FloatRepr(v.value)
      [] v.kind = "null" -> "null"
      [] v.kind = "array" ->
            "[" \o JoinStr([i \in 1..Len(v.value) |-> JsonDumps(v.value[i])], ", ") \o "]"
      [] v.kind = "object" ->
            "{" \o JoinStr([i \in 1..Len(v.value) |->
                              Quote(v.value[i][1]) \o ": " \o JsonDumps(v.value[i][2])],
                           ", ") \o "}"

RECURSIVE Spaces(_)
Spaces(n) == IF n = 0 THEN "" ELSE " " \o Spaces(n - 1)

\* json.dumps(v, indent=2) at nesting depth `level`: one item per line,
\* empty containers stay "[]" and "{}".
RECURSIVE JsonDumpsIndent(_, _)
JsonDumpsIndent(v, level) ==
    LET inner == "\n" \o Spaces(2 * (level + 1))
        outer == "\n" \o Spaces(2 * level)
    IN
    CASE v.kind = "int" -> ToString(v.value)
      [] v.kind = "float" -> FloatRepr(v.value)
      [] v.kind = "null" -> "null"
      [] v.kind = "array" ->
            IF v.value = <<>> THEN "[]"
            ELSE "[" \o inner
                 \o JoinStr([i \in 1..Len(v.value) |-> JsonDumpsIndent(v.value[i], level + 1)],
                            "," \o inner)
                 \o outer \o "]"
      [] v.kind = "object" ->
            IF v.value = <<>> THEN "{}"
            ELSE "{" \o inner
                 \o JoinStr([i \in 1..Len(v.value) |->
                               Quote(v.value[i][1]) \o ": "
                               \o JsonDumpsIndent(v.value[i][2], level + 1)],
                            "," \o inner)
                 \o outer \o "}"

(***************************************************************************)
(* numpy.float32: round to nearest, ties to even, on integers.             *)
(***************************************************************************)
Abs(n) == IF n < 0 THEN -n ELSE n

\* The spacing of float32 values at magnitude m: the least power of two u
\* for which m \div u fits the significand.
RECURSIVE Ulp(_, _)
Ulp(m, u) == IF m \div u < 2 ^ Float32Precision THEN u ELSE Ulp(m, 2 * u)

RoundHalfEven(m, u) ==
    LET q == m \div u
        r == m % u
    IN  IF 2 * r < u THEN q * u
        ELSE IF 2 * r > u THEN (q + 1) * u
        ELSE IF q % 2 = 0 THEN q * u
        ELSE (q + 1) * u

ToFloat32(n) ==
    LET m == Abs(n)
        rounded == RoundHalfEven(m, Ulp(m, 1))
    IN  IF n < 0 THEN -rounded ELSE rounded

\* np.array(lst, dtype=np.float32): the float32 value of every element.
NpArrayFloat32(lst) == [i \in 1..Len(lst.value) |-> ToFloat32(NumVal(lst.value[i]))]

\* ndarray.tolist(): a list of Python floats, one per element, in order.
Tolist(arr) == Arr([i \in 1..Len(arr) |-> PyFloat(arr[i])])

(***************************************************************************)
(* The inputs: events the framework delivers, replies of the service.      *)
(***************************************************************************)
EventNumbers == {PyInt(1), PyInt(16777217)}

DataLists == UNION {[1..n -> EventNumbers] : n \in 0..MaxLen}

DataItem(d) == <<"data", Arr(d)>>
IdItem == <<"id", PyInt(7)>>

Events ==
    {Obj(<<DataItem(d)>>) : d \in DataLists}
    \cup {Obj(<<DataItem(d), IdItem>>) : d \in {x \in DataLists : Len(x) <= 1}}
    \cup {Obj(<<>>), Obj(<<IdItem>>)}

InferenceBody(v) ==
    Obj(<< <<"outputs", Obj(<< <<"activation_5", Obj(<< <<"floatVal", v>> >>)>> >>)>> >>)

Scores == Arr(<<PyFloat(9), PyFloat(1)>>)

\* Bodies that lack outputs, outputs.activation_5 or
\* outputs.activation_5.floatVal, every container being a dict.
MissingPathBodies ==
    { Obj(<<>>),
      Obj(<< <<"outputs", Obj(<<>>)>> >>),
      Obj(<< <<"outputs", Obj(<< <<"activation_5", Obj(<<>>)>> >>)>> >>) }

\* A body whose "outputs" is a list, not a dict.
NonMappingBodies == { Obj(<< <<"outputs", Arr(<<>>)>> >>) }

PayloadOf(d) == Obj(<< <<"inputs_input", Tolist(NpArrayFloat32(Arr(d)))>> >>)

Payloads == {PayloadOf(d) : d \in DataLists}

EchoBodies == {InferenceBody(p.value[1][2]) : p \in Payloads}

ResponseBodies == {InferenceBody(Scores)} \cup MissingPathBodies \cup NonMappingBodies

MalformedText == "<html>502 Bad Gateway</html>"

\* The JSON documents of the model; json.loads inverts json.dumps on them.
JsonUniverse == Events \cup Payloads \cup ResponseBodies \cup EchoBodies

\* json.loads(text): the value whose serialization is text, JSONDecodeError
\* for a text that is no JSON document.
JsonTexts == [v \in JsonUniverse |-> JsonDumps(v)]

JsonLoads(text) ==
    IF \E v \in JsonUniverse : JsonTexts[v] = text
    THEN Ok(CHOOSE v \in JsonUniverse : JsonTexts[v] = text)
    ELSE Raise("JSONDecodeError")

\* What runtime.invoke_endpoint does: raise, or return a response with a Body.
Reply(raises, body) == [raises |-> raises, Body |-> body]
NotCalled == Reply("not-called", "")

\* botocore's errors for an unreachable endpoint and a non-success status.
ServiceErrors == {"EndpointConnectionError", "ClientError"}

Replies ==
    {Reply(e, "") : e \in ServiceErrors}
    \cup {Reply("", JsonDumps(b)) : b \in ResponseBodies}
    \cup {Reply("", MalformedText)}

(***************************************************************************)
(* The inference service behind runtime.invoke_endpoint: the live service, *)
(* which may answer a call with any reply, or a deterministic stub, which  *)
(* answers as a function of the request alone.                             *)
(***************************************************************************)
Service(mode, reply) == [mode |-> mode, reply |-> reply]

Services ==
    {Service("live", NotCalled), Service("echo", NotCalled)}
    \cup {Service("const", r) : r \in Replies}

Request(name, ctype, body) == [EndpointName |-> name, ContentType |-> ctype, Body |-> body]

\* The echo stub answers a body {"inputs_input": xs} with xs as floatVal,
\* and any other body with a non-success status.
EchoReply(req) ==
    LET parsed == JsonLoads(req.Body)
        inputs == Subscript(parsed.value, "inputs_input")
    IN  IF parsed.exc = "" /\ inputs.exc = ""
        THEN Reply("", JsonDumps(InferenceBody(inputs.value)))
        ELSE Reply("ClientError", "")

ServiceReplies(svc, req) ==
    CASE svc.mode = "live" -> Replies
      [] svc.mode = "const" -> {svc.reply}
      [] svc.mode = "echo" -> {EchoReply(req)}

(***************************************************************************)
(* The process.                                                            *)
(***************************************************************************)
VARIABLES
    environ,        \* os.environ["ENDPOINT_NAME"], or Unset
    service,        \* the service behind the boto3 client
    phase,          \* "cold", "ready" (module imported), "init_failed"
    importError,    \* the exception that ended the import, "" if none
    ENDPOINT_NAME,  \* the module global, Unbound until line 8 has run
    pc,             \* the handler's position
    event,          \* lambda_handler's argument
    data,           \* the float32 array of line 16
    payload,        \* the text of line 18
    response,       \* what invoke_endpoint returned
    result,         \* the local of lines 24-25
    exc,            \* the exception in flight
    stdout,         \* lines printed by the invocation in progress
    calls,          \* requests sent by the invocation in progress
    effects,        \* the order of its prints and calls
    last            \* outcome of the most recent finished invocation

vars == <<environ, service, phase, importError, ENDPOINT_NAME, pc, event, data,
          payload, response, result, exc, stdout, calls, effects, last>>

locals == <<event, data, payload, response, result>>
process == <<environ, service, phase, importError, ENDPOINT_NAME>>

Unset == "<unset>"
Unbound == "<unbound>"
EndpointNames == {"endpoint-a", "endpoint-b"}

Exc(type, line) == [type |-> type, line |-> line]
NoExc == Exc("", 0)

Outcome(status, ev, value, error, out, sent, reply) ==
    [status |-> status, event |-> ev, value |-> value, error |-> error,
     stdout |-> out, calls |-> sent, reply |-> reply]
NoOutcome == Outcome("none", None, None, NoExc, <<>>, <<>>, NotCalled)

\* The reply the invocation in progress got from its call, if it made one.
ReplyGot ==
    IF calls = <<>> THEN NotCalled
    ELSE IF exc.line = 20 THEN Reply(exc.type, "")
    ELSE response

Init ==
    /\ environ \in {Unset} \cup EndpointNames
    /\ service \in Services
    /\ phase = "cold"
    /\ importError = ""
    /\ ENDPOINT_NAME = Unbound
    /\ pc = "idle"
    /\ event = None
    /\ data = <<>>
    /\ payload = ""
    /\ response = NotCalled
    /\ result = None
    /\ exc = NoExc
    /\ stdout = <<>>
    /\ calls = <<>>
    /\ effects = <<>>
    /\ last = NoOutcome

\* A variant of LoadModule reading os.environ.get("ENDPOINT_NAME"): an absent
\* variable gives None and the import succeeds.
LoadModuleGet ==
    /\ phase = "cold"
    /\ phase' = "ready"
    /\ ENDPOINT_NAME' = IF environ = Unset THEN Unbound ELSE environ
    /\ UNCHANGED <<environ, service, importError, pc, locals, exc, stdout, calls,
                   effects, last>>

\* A variant of LoadModule reading os.environ.get("ENDPOINT_NAME", ""): an
\* absent variable gives the empty name and the import succeeds.
LoadModuleDefault ==
    /\ phase = "cold"
    /\ phase' = "ready"
    /\ ENDPOINT_NAME' = IF environ = Unset THEN "" ELSE environ
    /\ UNCHANGED <<environ, service, importError, pc, locals, exc, stdout, calls,
                   effects, last>>

\* Lines 8-9, run once when the module is imported: os.environ[...] raises
\* KeyError when the variable is absent and the import fails.
LoadModule ==
    /\ phase = "cold"
    /\ IF environ = Unset
       THEN /\ phase' = "init_failed"
            /\ importError' = "KeyError"
            /\ UNCHANGED ENDPOINT_NAME
       ELSE /\ phase' = "ready"
            /\ ENDPOINT_NAME' = environ
            /\ UNCHANGED importError
    /\ UNCHANGED <<environ, service, pc, locals, exc, stdout, calls, effects, last>>

\* The framework calls lambda_handler(e, context) on an imported module.
Invoke(e) ==
    /\ phase = "ready"
    /\ pc = "idle"
    /\ pc' = "print"
    /\ event' = e
    /\ data' = <<>>
    /\ payload' = ""
    /\ response' = NotCalled
    /\ result' = None
    /\ stdout' = <<>>
    /\ calls' = <<>>
    /\ effects' = <<>>
    /\ UNCHANGED <<process, exc, last>>

\* A variant of PrintEvent that logs event.get("data") only.
PrintEventDataOnly ==
    /\ pc = "print"
    /\ LET item == Subscript(event, "data")
       IN  stdout' = Append(stdout, "Received event: " \o JsonDumpsIndent(item.value, 0))
    /\ effects' = Append(effects, "print")
    /\ pc' = "extract"
    /\ UNCHANGED <<process, locals, exc, calls, last>>

\* Line 12.
PrintEvent ==
    /\ pc = "print"
    /\ stdout' = Append(stdout, "Received event: " \o JsonDumpsIndent(event, 0))
    /\ effects' = Append(effects, "print")
    /\ pc' = "extract"
    /\ UNCHANGED <<process, locals, exc, calls, last>>

\* A variant of ExtractData reading data.get("data", []): a missing key
\* gives the empty list.
ExtractDataDefault ==
    /\ pc = "extract"
    /\ LET copy == JsonLoads(JsonDumps(event))
           item == Subscript(copy.value, "data")
       IN  data' = IF item.exc # "" THEN <<>> ELSE NpArrayFloat32(item.value)
    /\ pc' = "dumps"
    /\ UNCHANGED <<process, event, payload, response, result, exc, stdout, calls,
                   effects, last>>

\* Lines 14-16: a JSON round trip of the event, event["data"], float32.
ExtractData ==
    /\ pc = "extract"
    /\ LET copy == JsonLoads(JsonDumps(event))
           item == Subscript(copy.value, "data")
       IN  IF item.exc # ""
           THEN /\ exc' = Exc(item.exc, 15)
                /\ pc' = "raised"
                /\ UNCHANGED data
           ELSE /\ data' = NpArrayFloat32(item.value)
                /\ pc' = "dumps"
                /\ UNCHANGED exc
    /\ UNCHANGED <<process, event, payload, response, result, stdout, calls, effects,
                   last>>

\* A variant of DumpPayload that serializes the event itself.
DumpPayloadRaw ==
    /\ pc = "dumps"
    /\ payload' = JsonDumps(event)
    /\ pc' = "invoke"
    /\ UNCHANGED <<process, event, data, response, result, exc, stdout, calls, effects,
                   last>>

\* A variant of DumpPayload that writes into a buffer kept across
\* invocations: the text follows what the previous invocation sent.
DumpPayloadBuffered ==
    /\ pc = "dumps"
    /\ payload' = (IF last.calls = <<>> THEN "" ELSE last.calls[1].Body)
                  \o JsonDumps(Obj(<< <<"inputs_input", Tolist(data)>> >>))
    /\ pc' = "invoke"
    /\ UNCHANGED <<process, event, data, response, result, exc, stdout, calls, effects,
                   last>>

\* Line 18.
DumpPayload ==
    /\ pc = "dumps"
    /\ payload' = JsonDumps(Obj(<< <<"inputs_input", Tolist(data)>> >>))
    /\ pc' = "invoke"
    /\ UNCHANGED <<process, event, data, response, result, exc, stdout, calls, effects,
                   last>>

\* Lines 20-22: one request; the client raises or returns the response.
InvokeEndpoint ==
    /\ pc = "invoke"
    /\ LET req == Request(ENDPOINT_NAME, "application/json", payload)
       IN  /\ calls' = Append(calls, req)
           /\ effects' = Append(effects, "invoke_endpoint")
           /\ \E r \in ServiceReplies(service, req) :
                IF r.raises # ""
                THEN /\ exc' = Exc(r.raises, 20)
                     /\ pc' = "raised"
                     /\ UNCHANGED response
                ELSE /\ response' = r
                     /\ pc' = "read"
                     /\ UNCHANGED exc
    /\ UNCHANGED <<process, event, data, payload, result, stdout, last>>

\* Line 24.
ReadBody ==
    /\ pc = "read"
    /\ LET parsed == JsonLoads(response.Body)
       IN  IF parsed.exc # ""
           THEN /\ exc' = Exc(parsed.exc, 24)
                /\ pc' = "raised"
                /\ UNCHANGED result
           ELSE /\ result' = parsed.value
                /\ pc' = "subscript"
                /\ UNCHANGED exc
    /\ UNCHANGED <<process, event, data, payload, response, stdout, calls, effects,
                   last>>

\* A variant of FloatValOf that stops at result['outputs']['activation_5'].
FloatValOfActivation(body) ==
    LET outputs == Subscript(body, "outputs")
        activation == Subscript(outputs.value, "activation_5")
    IN  IF outputs.exc # "" THEN outputs ELSE activation

\* result['outputs']['activation_5']['floatVal'], left to right.
FloatValOf(body) ==
    LET outputs == Subscript(body, "outputs")
        activation == Subscript(outputs.value, "activation_5")
        floatVal == Subscript(activation.value, "floatVal")
    IN  IF outputs.exc # "" THEN outputs
        ELSE IF activation.exc # "" THEN activation
        ELSE floatVal

\* A variant of ExtractResult with .get() lookups: a missing field gives
\* the empty list.
ExtractResultDefault ==
    /\ pc = "subscript"
    /\ LET got == FloatValOf(result)
       IN  result' = IF got.exc # "" THEN Arr(<<>>) ELSE got.value
    /\ pc' = "return"
    /\ UNCHANGED <<process, event, data, payload, response, exc, stdout, calls, effects,
                   last>>

\* Line 25.
ExtractResult ==
    /\ pc = "subscript"
    /\ LET got == FloatValOf(result)
       IN  IF got.exc # ""
           THEN /\ exc' = Exc(got.exc, 25)
                /\ pc' = "raised"
                /\ UNCHANGED result
           ELSE /\ result' = got.value
                /\ pc' = "return"
                /\ UNCHANGED exc
    /\ UNCHANGED <<process, event, data, payload, response, stdout, calls, effects,
                   last>>

\* Line 27: the value goes back to the framework.
Return ==
    /\ pc = "return"
    /\ last' = Outcome("returned", event, result, NoExc, stdout, calls, ReplyGot)
    /\ pc' = "idle"
    /\ UNCHANGED <<process, locals, exc, stdout, calls, effects>>

\* A variant of Propagate with the body in try/except: the exception is
\* swallowed and the empty list returned.
PropagateCaught ==
    /\ pc = "raised"
    /\ last' = Outcome("returned", event, Arr(<<>>), NoExc, stdout, calls, ReplyGot)
    /\ exc' = NoExc
    /\ pc' = "idle"
    /\ UNCHANGED <<process, locals, stdout, calls, effects>>

\* A variant of Propagate that, after a failed call, rebinds the global to
\* another endpoint for the invocations that follow.
PropagateFailover ==
    /\ pc = "raised"
    /\ last' = Outcome("raised", event, None, exc, stdout, calls, ReplyGot)
    /\ ENDPOINT_NAME' = IF exc.line = 20
                        THEN CHOOSE n \in EndpointNames : n # ENDPOINT_NAME
                        ELSE ENDPOINT_NAME
    /\ exc' = NoExc
    /\ pc' = "idle"
    /\ UNCHANGED <<environ, service, phase, importError, locals, stdout, calls, effects>>

\* The handler has no try statement: an exception raised at any line
\* leaves it at once and reaches the framework as it was raised.
Propagate ==
    /\ pc = "raised"
    /\ last' = Outcome("raised", event, None, exc, stdout, calls, ReplyGot)
    /\ exc' = NoExc
    /\ pc' = "idle"
    /\ UNCHANGED <<process, locals, stdout, calls, effects>>

Next ==
    \/ LoadModule
    \/ \E e \in Events : Invoke(e)
    \/ PrintEvent
    \/ ExtractData
    \/ DumpPayload
    \/ InvokeEndpoint
    \/ ReadBody
    \/ ExtractResult
    \/ Return
    \/ Propagate

Spec == Init /\ [][Next]_vars

(***************************************************************************)
(* Properties.                                                             *)
(***************************************************************************)
At(obj, key) == Subscript(obj, key).value

\* The list an event carries under "data".
DataOf(ev) == At(ev, "data").value

Finished == last.status # "none"

\* The reply is a response whose body parses to b.
Parsed(reply) == JsonLoads(reply.Body)
GotBody(reply) == reply.raises = "" /\ Parsed(reply).exc = ""

\* b holds outputs -> activation_5 -> floatVal.
HasFloatVal(b) ==
    /\ HasKey(b, "outputs")
    /\ HasKey(At(b, "outputs"), "activation_5")
    /\ HasKey(At(At(b, "outputs"), "activation_5"), "floatVal")

\* b is a dict that lacks outputs, or whose outputs is a dict that lacks
\* activation_5, or whose activation_5 is a dict that lacks floatVal.
LacksFloatVal(b) ==
    /\ b.kind = "object"
    /\ \/ ~HasKey(b, "outputs")
       \/ /\ At(b, "outputs").kind = "object"
          /\ \/ ~HasKey(At(b, "outputs"), "activation_5")
             \/ /\ HasKey(At(b, "outputs"), "activation_5")
                /\ At(At(b, "outputs"), "activation_5").kind = "object"
                /\ ~HasKey(At(At(b, "outputs"), "activation_5"), "floatVal")

\* C1: an invocation whose event carries data and whose call is answered by a
\* body holding outputs -> activation_5 -> floatVal returns exactly the value
\* stored there.
C1_ReturnsFloatValVerbatim ==
    (/\ Finished
     /\ HasKey(last.event, "data")
     /\ GotBody(last.reply)
     /\ HasFloatVal(Parsed(last.reply).value))
    => /\ last.status = "returned"
       /\ last.error = NoExc
       /\ last.value = At(At(At(Parsed(last.reply).value, "outputs"), "activation_5"),
                          "floatVal")

C1_Witness ==
    /\ last.status = "returned"
    /\ last.value = Scores
    /\ HasKey(last.event, "data")
    /\ DataOf(last.event) # <<>>

\* Every request sent is addressed to the configured endpoint with content
\* type application/json.
AddressedAsConfigured(req) ==
    /\ req.EndpointName = environ
    /\ req.ContentType = "application/json"

\* The body is the serialization of a dict with the one key inputs_input
\* holding a list as long as d.
SingleKeyBody(req, d) ==
    /\ JsonLoads(req.Body).exc = ""
    /\ LET sent == JsonLoads(req.Body).value
       IN  /\ sent.kind = "object"
           /\ Len(sent.value) = 1
           /\ sent.value[1][1] = "inputs_input"
           /\ sent.value[1][2].kind = "array"
           /\ Len(sent.value[1][2].value) = Len(d)

SentList(req) == JsonLoads(req.Body).value.value[1][2].value

\* C2 as stated: the list sent is d itself, element for element.
C2_PayloadIsData ==
    \A i \in 1..Len(calls) :
        /\ AddressedAsConfigured(calls[i])
        /\ SingleKeyBody(calls[i], DataOf(event))
        /\ \A j \in 1..Len(DataOf(event)) :
              NumVal(SentList(calls[i])[j]) = NumVal(DataOf(event)[j])

\* C2, amended: the body sent is the serialization of a dict with the one key
\* inputs_input, whose value has the length and order of d and holds each
\* element of d rounded to the nearest 32-bit float; the request is addressed
\* to the configured endpoint with content type application/json.
C2_PayloadIsFloat32Data ==
    \A i \in 1..Len(calls) :
        /\ AddressedAsConfigured(calls[i])
        /\ SingleKeyBody(calls[i], DataOf(event))
        /\ \A j \in 1..Len(DataOf(event)) :
              SentList(calls[i])[j] = PyFloat(ToFloat32(NumVal(DataOf(event)[j])))

C2_Witness ==
    /\ calls # <<>>
    /\ HasKey(event, "id")
    /\ DataOf(event) = <<PyInt(16777217)>>
    /\ calls[1].Body = "{\"inputs_input\": [16777216.0]}"

\* C3: an invocation whose event lacks data never reaches the call: it sends
\* nothing, raises KeyError at line 15 and returns no value.
C3_MissingDataFailsBeforeCall ==
    /\ (phase = "ready" /\ event # None /\ ~HasKey(event, "data"))
       => /\ pc \in {"print", "extract", "raised", "idle"}
          /\ calls = <<>>
          /\ response = NotCalled
          /\ (pc = "raised" => exc = Exc("KeyError", 15))
    /\ (Finished /\ ~HasKey(last.event, "data"))
       => /\ last.status = "raised"
          /\ last.error = Exc("KeyError", 15)
          /\ last.value = None
          /\ last.calls = <<>>
          /\ last.reply = NotCalled

C3_Witness ==
    /\ last.status = "raised"
    /\ ~HasKey(last.event, "data")
    /\ HasKey(last.event, "id")
    /\ last.calls = <<>>

C5_UnsetEndpointNeverServes ==
    (environ = Unset)
    => /\ phase \in {"cold", "init_failed"}
       /\ (phase = "init_failed" <=> importError = "KeyError")
       /\ ENDPOINT_NAME = Unbound
       /\ pc = "idle"
       /\ event = None
       /\ stdout = <<>>
       /\ calls = <<>>
       /\ effects = <<>>
       /\ last = NoOutcome

C5_Witness ==
    /\ environ = Unset
    /\ phase = "init_failed"
    /\ ENDPOINT_NAME = Unbound

\* The step that ends an invocation.
Finishing == pc \in {"return", "raised"}

\* C6: behind a deterministic stub, an invocation with the event of the
\* invocation before it ends as that one did (same value or same exception)
\* after sending the same requests.
C6_Idempotent ==
    [][(/\ service.mode # "live"
        /\ Finishing
        /\ Finished
        /\ last.event = event)
       => /\ last'.status = last.status
          /\ last'.value = last.value
          /\ last'.error = last.error
          /\ last'.calls = last.calls]_vars

C6_Witness ==
    /\ service.mode = "echo"
    /\ pc = "return"
    /\ last.status = "returned"
    /\ last.event = event
    /\ DataOf(event) # <<>>

\* The exceptions of the error classes an invocation can meet, by the line
\* that raises them: the event's missing field, the service's errors, the
\* malformed body, the response's missing field.
InvocationErrors ==
    {Exc("KeyError", 15), Exc("JSONDecodeError", 24), Exc("KeyError", 25)}
    \cup {Exc(e, 20) : e \in ServiceErrors}

\* C7: an exception raised in an invocation ends it at once with that same
\* exception and no value; no request is sent after it, and no invocation
\* sends more than one.
C7_ErrorsPropagate ==
    /\ [](/\ Len(calls) <= 1
          /\ Len(last.calls) <= 1
          /\ (last.status = "raised"
              => /\ last.value = None
                 /\ last.error \in InvocationErrors \cup {Exc("TypeError", 25)})
          /\ (last.status = "returned" => last.error = NoExc))
    /\ [][(pc = "raised")
          => /\ pc' = "idle"
             /\ last'.status = "raised"
             /\ last'.error = exc
             /\ last'.value = None
             /\ last'.calls = calls
             /\ calls' = calls]_vars

C7_Witness ==
    /\ last.status = "raised"
    /\ last.error = Exc("JSONDecodeError", 24)
    /\ Len(last.calls) = 1

LogLine(ev) == "Received event: " \o JsonDumpsIndent(ev, 0)

EventLogLines == [e \in Events |-> LogLine(e)]

\* One log line, holding the whole event, printed before any call; at most
\* one call.
LogsThenCalls ==
    /\ effects \in {<<>>, <<"print">>, <<"print", "invoke_endpoint">>}
    /\ Len(stdout) = (IF effects = <<>> THEN 0 ELSE 1)
    /\ Len(calls) = (IF Len(effects) = 2 THEN 1 ELSE 0)
    /\ (stdout # <<>>)
       => /\ stdout[1] = LogLine(event)
          /\ \A e \in Events : EventLogLines[e] = stdout[1] => e = event
    /\ Finished => Len(last.stdout) = 1 /\ last.stdout[1] = LogLine(last.event)

FailureSeen ==
    IF phase = "init_failed" THEN importError
    ELSE IF last.status = "raised" THEN last.error.type
    ELSE ""

\* C9 as stated: with the endpoint identifier unset, the failure is a
\* service-invocation error.
C9_UnsetIsServiceError ==
    (environ = Unset /\ FailureSeen # "") => FailureSeen \in ServiceErrors

\* C9, amended: with the endpoint identifier unset, the failure is the
\* KeyError that ends the import, before the handler can run and without
\* any call; service-invocation errors come only from a call that was made,
\* at line 20, with the identifier set.
C9_UnsetIsImportKeyError ==
    /\ (environ = Unset /\ FailureSeen # "")
       => /\ FailureSeen = "KeyError"
          /\ phase = "init_failed"
          /\ ~Finished
          /\ calls = <<>>
    /\ (last.status = "raised" /\ last.error.type \in ServiceErrors)
       => /\ environ # Unset
          /\ last.error.line = 20
          /\ Len(last.calls) = 1
          /\ last.calls[1].EndpointName = environ

C9_Witness ==
    /\ environ = Unset
    /\ FailureSeen = "KeyError"
    /\ importError = "KeyError"

\* C10: once read, the endpoint identifier never changes and every request
\* goes to it; an invocation's outcome is that of its own event and of the
\* reply to its own call, so an invocation that meets the event and reply of
\* the one before it, failed or not, ends exactly as that one did.
C10_InvocationsIndependent ==
    /\ [](/\ (phase = "ready") => ENDPOINT_NAME = environ
          /\ \A i \in 1..Len(calls) : calls[i].EndpointName = ENDPOINT_NAME
          /\ \A i \in 1..Len(last.calls) : last.calls[i].EndpointName = ENDPOINT_NAME)
    /\ [][(phase = "ready") => (phase' = "ready" /\ ENDPOINT_NAME' = ENDPOINT_NAME)]_vars
    /\ [][Finishing
          => /\ last'.event = event
             /\ last'.reply = ReplyGot
             /\ last'.calls = calls
             /\ (Finished /\ last.event = event /\ last.reply = ReplyGot)
                => last' = last]_vars

C10_Witness ==
    /\ service.mode = "live"
    /\ pc = "return"
    /\ last.status = "raised"
    /\ last.error.line = 20
    /\ last.event = event

====
